---- MODULE Spec2Model ----
(***************************************************************************)
(* The multi-platform broadcast tool: the three platform adapters          *)
(* (telegram, vk, x), their credential resolvers, and the dispatcher       *)
(* broadcast() with its pre-flight gate and sequential send loop.          *)
(*                                                                         *)
(* An environment is the set of names of the environment variables that    *)
(* hold a non-empty value: every credential test of the code is a          *)
(* truthiness test of such a value.  A message is represented by its       *)
(* length in code units, the only thing any validation reads.              *)
(***************************************************************************)
EXTENDS Integers, Sequences, FiniteSets, TLC

VARIABLES
  env,                \* names of the non-empty environment variables
  exposes,            \* adapters that define a validateMessage method
  client,             \* XBroadcaster.client
  ctorThrew,          \* whether the TwitterApi constructor threw in initializeClient
  sessionFile,        \* the file ./.telegram_session of the user scheme
  exitCode,           \* process exit code of the front end, "none" while running
  authMethod,         \* XBroadcaster.authMethod
  pc,                 \* position of the broadcast() call
  message,            \* broadcast(message, ...): length of the text
  platforms,          \* broadcast(..., platforms): requested names
  targetBroadcasters, \* broadcast: the selected adapters, by name
  idx,                \* broadcast: position of the send loop
  results,            \* the list broadcast() returns / a direct call returned
  trace,              \* history: the adapter and logger calls, in order
  observed            \* the direct query calls made, with what each returned

vars == <<env, exposes, client, ctorThrew, sessionFile, exitCode, authMethod, pc, message, platforms,
          targetBroadcasters, idx, results, trace, observed>>

(***************************************************************************)
(* Bounds of the model.                                                    *)
(***************************************************************************)
MaxPlatforms == 2
MaxOver == 1
MaxCalls == 3

(***************************************************************************)
(* Small helpers.                                                          *)
(***************************************************************************)
RECURSIVE Join(_, _)
Join(errors, sep) ==
  IF Len(errors) = 0 THEN ""
  ELSE IF Len(errors) = 1 THEN errors[1]
  ELSE errors[1] \o sep \o Join(Tail(errors), sep)

RECURSIVE MissingErrors(_, _, _)
MissingErrors(e, fields, suffix) ==
  IF Len(fields) = 0 THEN <<>>
  ELSE (IF Head(fields) \in e THEN <<>> ELSE <<Head(fields) \o suffix>>)
       \o MissingErrors(e, Tail(fields), suffix)

Undefined == "undefined"

(***************************************************************************)
(* Outcomes of one network round trip, as the transport reports them.      *)
(***************************************************************************)
NetOk == [kind |-> "ok", message |-> ""]
NetApiError == [kind |-> "apiError", message |-> "Forbidden"]
NetException == [kind |-> "exception", message |-> "fetch failed"]
NetOutcomes == {NetOk, NetApiError, NetException}

\* What a call of an async adapter method completes with.
Return(value, netCalled) ==
  [threw |-> FALSE, value |-> value, netCalled |-> netCalled, userClient |-> FALSE]
Throw(msg, netCalled) ==
  [threw |-> TRUE, message |-> msg, netCalled |-> netCalled, userClient |-> FALSE]

\* The completion of a call made inside usingTelegramUser: the user client was
\* connected for it (and disconnected in the finally clause).
ViaUserClient(c) == [c EXCEPT !.userClient = TRUE]

(***************************************************************************)
(* X.com: XConfig and XBroadcaster.                                        *)
(***************************************************************************)
XOAuth2Fields ==
  <<"X_CLIENT_ID", "X_CLIENT_SECRET", "X_ACCESS_TOKEN", "X_ACCESS_TOKEN_SECRET">>
XOAuth1Fields ==
  <<"X_API_KEY", "X_API_KEY_SECRET", "X_ACCESS_TOKEN", "X_ACCESS_TOKEN_SECRET">>
XEnvNames ==
  {"X_CLIENT_ID", "X_CLIENT_SECRET", "X_ACCESS_TOKEN", "X_ACCESS_TOKEN_SECRET",
   "X_API_KEY", "X_API_KEY_SECRET", "X_BEARER_TOKEN"}

hasOAuth2UserAuth(e) == \A i \in 1..Len(XOAuth2Fields) : XOAuth2Fields[i] \in e
hasOAuth1UserAuth(e) == \A i \in 1..Len(XOAuth1Fields) : XOAuth1Fields[i] \in e
hasBearerAuth(e) == "X_BEARER_TOKEN" \in e

XNoSchemeError ==
  "At least one authentication method is required: OAuth 2.0 user auth (X_CLIENT_ID + X_CLIENT_SECRET + X_ACCESS_TOKEN + X_ACCESS_TOKEN_SECRET), OAuth 1.0a user auth (X_API_KEY + X_API_KEY_SECRET + X_ACCESS_TOKEN + X_ACCESS_TOKEN_SECRET), or Bearer token (X_BEARER_TOKEN)"

\* Faulty variant: the bearer token forgotten in the no-scheme test.
XValidateForgetsBearer(e) ==
  IF ~hasOAuth2UserAuth(e) /\ ~hasOAuth1UserAuth(e)
    THEN <<XNoSchemeError>>
    ELSE <<>>

XValidate(e) ==
  (IF ~hasOAuth2UserAuth(e) /\ ~hasOAuth1UserAuth(e) /\ ~hasBearerAuth(e)
     THEN <<XNoSchemeError>>
     ELSE <<>>)
  \o (IF hasOAuth2UserAuth(e)
        THEN MissingErrors(e, XOAuth2Fields, " is required for OAuth 2.0 user auth")
        ELSE <<>>)
  \o (IF hasOAuth1UserAuth(e) /\ ~hasOAuth2UserAuth(e)
        THEN MissingErrors(e, XOAuth1Fields, " is required for OAuth 1.0a user auth")
        ELSE <<>>)

XIsValid(e) == Len(XValidate(e)) = 0

\* The client handle: null, or a TwitterApi built from the named settings.
NullClient == [built |-> FALSE, uses |-> {}]
TwitterApi(names) == [built |-> TRUE, uses |-> names]

\* ctorThrows: whether the TwitterApi constructor (or withOAuth2Bearer) throws.
\* Faulty variant: the OAuth 1.0a branch tested before the OAuth 2.0 branch.
XInitializeClientWrongOrder(e, ctorThrows) ==
  IF hasOAuth1UserAuth(e) THEN
    IF ctorThrows THEN [client |-> NullClient, authMethod |-> Undefined]
    ELSE [client |-> TwitterApi({"X_API_KEY", "X_API_KEY_SECRET",
                                 "X_ACCESS_TOKEN", "X_ACCESS_TOKEN_SECRET"}),
          authMethod |-> "OAuth 1.0a User"]
  ELSE IF hasOAuth2UserAuth(e) THEN
    IF ctorThrows THEN [client |-> NullClient, authMethod |-> Undefined]
    ELSE [client |-> TwitterApi({"X_CLIENT_ID", "X_CLIENT_SECRET",
                                 "X_ACCESS_TOKEN", "X_ACCESS_TOKEN_SECRET"}),
          authMethod |-> "OAuth 2.0 User"]
  ELSE IF hasBearerAuth(e) THEN
    IF ctorThrows THEN [client |-> NullClient, authMethod |-> Undefined]
    ELSE [client |-> TwitterApi({"X_BEARER_TOKEN"}), authMethod |-> "Bearer Token"]
  ELSE [client |-> NullClient, authMethod |-> Undefined]

\* Faulty variant: no client is built from a bearer token alone.
XInitializeClientNoBearer(e, ctorThrows) ==
  IF hasOAuth2UserAuth(e) THEN
    IF ctorThrows THEN [client |-> NullClient, authMethod |-> Undefined]
    ELSE [client |-> TwitterApi({"X_CLIENT_ID", "X_CLIENT_SECRET",
                                 "X_ACCESS_TOKEN", "X_ACCESS_TOKEN_SECRET"}),
          authMethod |-> "OAuth 2.0 User"]
  ELSE IF hasOAuth1UserAuth(e) THEN
    IF ctorThrows THEN [client |-> NullClient, authMethod |-> Undefined]
    ELSE [client |-> TwitterApi({"X_API_KEY", "X_API_KEY_SECRET",
                                 "X_ACCESS_TOKEN", "X_ACCESS_TOKEN_SECRET"}),
          authMethod |-> "OAuth 1.0a User"]
  ELSE [client |-> NullClient, authMethod |-> Undefined]

\* initializeClient as written: OAuth 2.0, else OAuth 1.0a, else Bearer token.
XInitializeClient(e, ctorThrows) ==
  IF hasOAuth2UserAuth(e) THEN
    IF ctorThrows THEN [client |-> NullClient, authMethod |-> Undefined]
    ELSE [client |-> TwitterApi({"X_CLIENT_ID", "X_CLIENT_SECRET",
                                 "X_ACCESS_TOKEN", "X_ACCESS_TOKEN_SECRET"}),
          authMethod |-> "OAuth 2.0 User"]
  ELSE IF hasOAuth1UserAuth(e) THEN
    IF ctorThrows THEN [client |-> NullClient, authMethod |-> Undefined]
    ELSE [client |-> TwitterApi({"X_API_KEY", "X_API_KEY_SECRET",
                                 "X_ACCESS_TOKEN", "X_ACCESS_TOKEN_SECRET"}),
          authMethod |-> "OAuth 1.0a User"]
  ELSE IF hasBearerAuth(e) THEN
    IF ctorThrows THEN [client |-> NullClient, authMethod |-> Undefined]
    ELSE [client |-> TwitterApi({"X_BEARER_TOKEN"}), authMethod |-> "Bearer Token"]
  ELSE [client |-> NullClient, authMethod |-> Undefined]

\* Faulty variant: a bearer-token client counted as unconfigured.
XIsConfiguredRejectsBearer ==
  XIsValid(env) /\ client.built /\ authMethod # "Bearer Token"

\* Faulty variant: the client handle not consulted.
XIsConfiguredIgnoresClient == XIsValid(env)

XIsConfigured == XIsValid(env) /\ client.built

\* Faulty variant: the error list kept on the object, so that every call
\* pushes the client entry onto what the earlier calls left.
XGetConfigurationErrorsAccumulates ==
  XValidate(env)
  \o (IF XIsValid(env) /\ ~client.built
        THEN [k \in 1..(1 + Cardinality({j \in DOMAIN observed :
                                           /\ observed[j].op = "getConfigurationErrors"
                                           /\ observed[j].platform = "x"}))
                |-> "Failed to initialize X.com client"]
        ELSE <<>>)

XGetConfigurationErrors ==
  XValidate(env)
  \o (IF XIsValid(env) /\ ~client.built
        THEN <<"Failed to initialize X.com client">>
        ELSE <<>>)

\* The try block of send: v2.tweet rejects on a non-success response as on a
\* network failure, with the error's message.
XSendBody(cl, am, net) ==
  IF ~cl.built
    THEN Throw("X.com client not initialized - check authentication credentials", FALSE)
  ELSE IF am = "Bearer Token"
    THEN Throw("Bearer token authentication cannot post tweets - user authentication required", FALSE)
  ELSE IF net.kind = "ok"
    THEN Return([success |-> TRUE, platform |-> "x", result |-> net.kind,
                 messageId |-> "1850000000000000001", method |-> am], TRUE)
  ELSE Throw(net.message, TRUE)

\* Faulty variant: send without its catch handler.
XSendNoCatch(cl, am, net) == XSendBody(cl, am, net)

XSend(cl, am, net) ==
  LET c == XSendBody(cl, am, net) IN
  IF c.threw
    THEN Return([success |-> FALSE, platform |-> "x", error |-> c.message], c.netCalled)
    ELSE c

\* The try block of deleteMessage.
\* Faulty variant: the bearer-token test left out.
XDeleteBodyNoCapabilityTest(cl, am, net) ==
  IF ~cl.built
    THEN Throw("X.com client not initialized - check authentication credentials", FALSE)
  ELSE IF net.kind = "ok"
    THEN Return([success |-> TRUE, platform |-> "x", result |-> net.kind,
                 method |-> am], TRUE)
  ELSE Throw(net.message, TRUE)

XDeleteBody(cl, am, net) ==
  IF ~cl.built
    THEN Throw("X.com client not initialized - check authentication credentials", FALSE)
  ELSE IF am = "Bearer Token"
    THEN Throw("Bearer token authentication cannot delete tweets - user authentication required", FALSE)
  ELSE IF net.kind = "ok"
    THEN Return([success |-> TRUE, platform |-> "x", result |-> net.kind,
                 method |-> am], TRUE)
  ELSE Throw(net.message, TRUE)

XDeleteMessage(cl, am, net) ==
  LET c == XDeleteBody(cl, am, net) IN
  IF c.threw
    THEN Return([success |-> FALSE, platform |-> "x", error |-> c.message], c.netCalled)
    ELSE c

(***************************************************************************)
(* VK: VKConfig and VKBroadcaster.                                         *)
(***************************************************************************)
VKEnvNames == {"VK_ACCESS_TOKEN", "VK_GROUP_ID"}

VKValidate(e) ==
  (IF "VK_ACCESS_TOKEN" \in e THEN <<>> ELSE <<"VK_ACCESS_TOKEN is required">>)
  \o (IF "VK_GROUP_ID" \in e THEN <<>> ELSE <<"VK_GROUP_ID is required">>)

VKIsValid(e) == Len(VKValidate(e)) = 0
VKIsConfigured == VKIsValid(env)
VKGetConfigurationErrors == VKValidate(env)

\* The try block of send: fetch, response.json(), then the result.error test.
VKSendBody(net) ==
  IF net.kind = "exception" THEN Throw(net.message, TRUE)
  ELSE IF net.kind = "apiError" THEN Throw("VK API error: " \o net.message, TRUE)
  ELSE Return([success |-> TRUE, platform |-> "vk", result |-> net.kind], TRUE)

VKSend(net) ==
  LET c == VKSendBody(net) IN
  IF c.threw
    THEN Return([success |-> FALSE, platform |-> "vk", error |-> c.message], c.netCalled)
    ELSE c

(***************************************************************************)
(* Telegram: TelegramConfig and TelegramBroadcaster.                       *)
(***************************************************************************)
TGEnvNames ==
  {"TELEGRAM_BOT_TOKEN", "TELEGRAM_CHANNEL_ID", "TELEGRAM_USER_BOT_API_ID",
   "TELEGRAM_USER_BOT_API_HASH", "TELEGRAM_USER_BOT_PHONE",
   "TELEGRAM_USER_BOT_CHAT_USERNAME", "TELEGRAM_USER_BOT_CHAT_ID"}

hasBotAuth(e) == "TELEGRAM_BOT_TOKEN" \in e /\ "TELEGRAM_CHANNEL_ID" \in e

hasUserAuth(e) ==
  /\ "TELEGRAM_USER_BOT_API_ID" \in e
  /\ "TELEGRAM_USER_BOT_API_HASH" \in e
  /\ "TELEGRAM_USER_BOT_PHONE" \in e
  /\ ("TELEGRAM_USER_BOT_CHAT_USERNAME" \in e \/ "TELEGRAM_USER_BOT_CHAT_ID" \in e)

TGValidate(e) ==
  (IF ~hasBotAuth(e) /\ ~hasUserAuth(e)
     THEN <<"Either bot authentication (TELEGRAM_BOT_TOKEN + TELEGRAM_CHANNEL_ID) or user authentication (TELEGRAM_USER_BOT_*) is required">>
     ELSE <<>>)
  \o (IF hasUserAuth(e)
        THEN MissingErrors(e, <<"TELEGRAM_USER_BOT_API_ID">>, " is required for user auth")
             \o MissingErrors(e, <<"TELEGRAM_USER_BOT_API_HASH">>, " is required for user auth")
             \o MissingErrors(e, <<"TELEGRAM_USER_BOT_PHONE">>, " is required for user auth")
             \o (IF "TELEGRAM_USER_BOT_CHAT_USERNAME" \notin e /\ "TELEGRAM_USER_BOT_CHAT_ID" \notin e
                   THEN <<"Either TELEGRAM_USER_BOT_CHAT_USERNAME or TELEGRAM_USER_BOT_CHAT_ID is required for user auth">>
                   ELSE <<>>)
        ELSE <<>>)

TGIsValid(e) == Len(TGValidate(e)) = 0
TGIsConfigured == TGIsValid(env)
TGGetConfigurationErrors == TGValidate(env)

\* baseUrl is set by the constructor exactly when the bot token is non-empty.
TGBaseUrlSet(e) == "TELEGRAM_BOT_TOKEN" \in e

sendViaBot(e, net) ==
  IF ~TGBaseUrlSet(e) THEN Throw("Telegram bot token not configured", FALSE)
  ELSE IF net.kind = "exception" THEN Throw(net.message, TRUE)
  ELSE IF net.kind = "apiError" THEN Throw("Telegram API error: " \o net.message, TRUE)
  ELSE Return([success |-> TRUE, platform |-> "telegram", method |-> "bot",
               result |-> net.kind, messageId |-> 4242], TRUE)

(***************************************************************************)
(* The user-client path.  One run of it meets u: whether the dynamic       *)
(* imports, the read of the session file, client.start and the write of    *)
(* the session file succeed (u.load, u.read, u.start, u.write), the entity *)
(* getEntity resolves to (u.entity, NoEntity when it rejects) and the      *)
(* outcome of the API call (u.api).                                        *)
(***************************************************************************)
Call(op, b) == [op |-> op, platform |-> b]

\* The session file: absent, or holding a serialized session string.
AbsentSession == [exists |-> FALSE, content |-> ""]
StoredSession == [exists |-> TRUE, content |-> "stored session"]
SavedSession == [exists |-> TRUE, content |-> "client.session.save()"]

\* Resolved entities, by the fields deleteViaUser reads.
Entity(className, megagroup, broadcast) ==
  [className |-> className, megagroup |-> megagroup, broadcast |-> broadcast]
BroadcastChannel == Entity("Channel", FALSE, TRUE)
Supergroup == Entity("Channel", TRUE, FALSE)
MegagroupChat == Entity("Chat", TRUE, FALSE)
PlainChat == Entity("Chat", FALSE, FALSE)
UserPeer == Entity("User", FALSE, FALSE)
Entities == {BroadcastChannel, Supergroup, MegagroupChat, PlainChat, UserPeer}
NoEntity == Entity("none", FALSE, FALSE)

UserRuns ==
  [load : {"ok", "fail"}, read : {"ok", "fail"}, start : {"ok", "fail"},
   write : {"ok", "fail"}, entity : Entities \cup {NoEntity},
   api : {NetOk, NetException}]

\* A completion with what the call did, step by step, and the session file
\* it left.
WithEffects(c, effects, file) == [effects |-> effects, file |-> file] @@ c

\* Faulty variant: the session is saved after every handshake.
SavesSessionAlways(file) == TRUE

\* if (!fileExists): the session is saved when no file was found.
SavesSession(file) == ~file.exists

initTelegramUserConnection(file, u) ==
  LET probe == <<Call("fs.existsSync", "telegram")>>
      read == IF file.exists THEN <<Call("fs.readFile", "telegram")>> ELSE <<>>
      start == <<Call("client.start", "telegram") @@ [started |-> u.start = "ok"]>>
      write == IF SavesSession(file)
                 THEN <<Call("fs.writeFile", "telegram")>> ELSE <<>>
  IN IF u.load = "fail"
       THEN WithEffects(Throw("Cannot find package 'telegram'", FALSE), <<>>, file)
     ELSE IF file.exists /\ u.read = "fail"
       THEN WithEffects(Throw("EACCES: permission denied, open './.telegram_session'", FALSE),
                        probe \o read, file)
     ELSE IF u.start = "fail"
       THEN WithEffects(ViaUserClient(Throw("PHONE_CODE_INVALID", TRUE)),
                        probe \o read \o start, file)
     ELSE IF SavesSession(file) /\ u.write = "fail"
       THEN WithEffects(ViaUserClient(Throw("ENOSPC: no space left on device, write", TRUE)),
                        probe \o read \o start \o write, file)
     ELSE WithEffects(ViaUserClient(Return("client", TRUE)),
                      probe \o read \o start \o write
                      \o <<Call("client.connected", "telegram")>>,
                      IF SavesSession(file) THEN SavedSession ELSE file)

\* Faulty variant: the client is disconnected only after fn returned.
usingTelegramUserNoFinally(file, u, fn) ==
  LET init == initTelegramUserConnection(file, u) IN
  IF init.threw THEN init
  ELSE WithEffects(ViaUserClient(fn),
                   init.effects \o fn.effects
                   \o (IF fn.threw THEN <<>> ELSE <<Call("client.disconnect", "telegram")>>),
                   init.file)

\* fn: the completion of the wrapped action on the connected client.
usingTelegramUser(file, u, fn) ==
  LET init == initTelegramUserConnection(file, u) IN
  IF init.threw THEN init
  ELSE WithEffects(ViaUserClient(fn),
                   init.effects \o fn.effects \o <<Call("client.disconnect", "telegram")>>,
                   init.file)

EntityNotFound == "Cannot find any entity corresponding to the chat"

\* An awaited client operation rejected with an error carrying msg.
Rejected(msg) == Call("rejected", "telegram") @@ [message |-> msg]

\* await client.getEntity(...), with what it resolved to.
Resolve(entity) == Call("client.getEntity", "telegram") @@ [entity |-> entity]

\* The action sendViaUser wraps: resolve the chat entity, send the message.
sendViaUserAction(e, u) ==
  LET resolve == <<Resolve(u.entity)>>
      post == <<Call("client.sendMessage", "telegram")>>
  IN IF u.entity = NoEntity
       THEN Throw(EntityNotFound, TRUE)
            @@ [effects |-> resolve \o <<Rejected(EntityNotFound)>>]
     ELSE IF u.api.kind # "ok"
       THEN Throw(u.api.message, TRUE)
            @@ [effects |-> resolve \o post \o <<Rejected(u.api.message)>>]
     ELSE Return([success |-> TRUE, platform |-> "telegram", method |-> "user",
                  result |-> u.api.kind, messageId |-> 4243,
                  chatEntity |-> u.entity], TRUE) @@ [effects |-> resolve \o post]

sendViaUserWith(e, file, u) == usingTelegramUser(file, u, sendViaUserAction(e, u))

\* A run with the session stored and the connection made, ending in net.
RunEndingIn(net) ==
  [load |-> "ok", read |-> "ok", start |-> "ok", write |-> "ok",
   entity |-> BroadcastChannel, api |-> net]

\* sendViaUser as the dispatcher meets it: the handshake was done before.
sendViaUser(e, net) == sendViaUserWith(e, StoredSession, RunEndingIn(net))

\* Faulty variant: the user client preferred over the Bot API.
TGSendBodyPrefersUser(e, net) ==
  IF hasUserAuth(e) THEN sendViaUser(e, net)
  ELSE IF hasBotAuth(e) THEN sendViaBot(e, net)
  ELSE Throw("No valid authentication method configured", FALSE)

TGSendBody(e, net) ==
  IF hasBotAuth(e) THEN sendViaBot(e, net)
  ELSE IF hasUserAuth(e) THEN sendViaUser(e, net)
  ELSE Throw("No valid authentication method configured", FALSE)

\* The catch handler of send and of deleteMessage.
TGCatch(c) ==
  IF c.threw
    THEN [Return([success |-> FALSE, platform |-> "telegram", error |-> c.message],
                 c.netCalled) EXCEPT !.userClient = c.userClient]
    ELSE c

TGSend(e, net) == TGCatch(TGSendBody(e, net))

deleteViaBot(e, net) ==
  IF ~TGBaseUrlSet(e) THEN Throw("Telegram bot token not configured", FALSE)
  ELSE IF net.kind = "exception" THEN Throw(net.message, TRUE)
  ELSE IF net.kind = "apiError" THEN Throw("Telegram API error: " \o net.message, TRUE)
  ELSE Return([success |-> TRUE, platform |-> "telegram", method |-> "bot",
               result |-> net.kind], TRUE)

\* client.invoke(new Api.<api>(...)); messages.DeleteMessages is built with
\* revoke: true.
Invoke(api) ==
  IF api = "messages.DeleteMessages"
    THEN Call(api, "telegram") @@ [revoke |-> TRUE]
    ELSE Call(api, "telegram")

\* Faulty variant: only the class name selects the operation.
DeleteApiIgnoresMegagroup(entity) ==
  IF entity.className = "Channel" THEN "channels.DeleteMessages"
  ELSE "messages.DeleteMessages"

\* The delete operation deleteViaUser picks for a resolved entity.
DeleteApi(entity) ==
  IF entity.className = "Channel" THEN "channels.DeleteMessages"
  ELSE IF entity.className = "Chat"
    THEN IF entity.megagroup THEN "channels.DeleteMessages"
         ELSE "messages.DeleteMessages"
  ELSE "messages.DeleteMessages"

\* The action deleteViaUser wraps; chatEntity is the entity the caller
\* passed (NoEntity for null: it is then resolved with getEntity).
deleteViaUserAction(e, u, chatEntity) ==
  LET resolve == IF chatEntity = NoEntity
                   THEN <<Resolve(u.entity)>> ELSE <<>>
      targetChatEntity == IF chatEntity = NoEntity THEN u.entity ELSE chatEntity
      delete == <<Invoke(DeleteApi(targetChatEntity))>>
  IN IF targetChatEntity = NoEntity
       THEN Throw(EntityNotFound, TRUE)
            @@ [effects |-> resolve \o <<Rejected(EntityNotFound)>>]
     ELSE IF u.api.kind # "ok"
       THEN Throw(u.api.message, TRUE)
            @@ [effects |-> resolve \o delete \o <<Rejected(u.api.message)>>]
     ELSE Return([success |-> TRUE, platform |-> "telegram", method |-> "user",
                  result |-> u.api.kind], TRUE) @@ [effects |-> resolve \o delete]

deleteViaUserWith(e, file, u, chatEntity) ==
  usingTelegramUser(file, u, deleteViaUserAction(e, u, chatEntity))

\* deleteViaUser as the coarse calls meet it: the handshake was done before
\* and no entity is passed.
deleteViaUser(e, net) ==
  deleteViaUserWith(e, StoredSession, RunEndingIn(net), NoEntity)

TGDeleteBody(e, net) ==
  IF hasBotAuth(e) THEN deleteViaBot(e, net)
  ELSE IF hasUserAuth(e) THEN deleteViaUser(e, net)
  ELSE Throw("No valid authentication method configured", FALSE)

TGDeleteMessage(e, net) == TGCatch(TGDeleteBody(e, net))

(***************************************************************************)
(* The uniform adapter contract, as the dispatcher reaches it through the  *)
(* duck-typed entries of the broadcasters array.                           *)
(***************************************************************************)
broadcasters == <<"telegram", "vk", "x">>

isConfigured(b) ==
  IF b = "telegram" THEN TGIsConfigured
  ELSE IF b = "vk" THEN VKIsConfigured
  ELSE XIsConfigured

getConfigurationErrors(b) ==
  IF b = "telegram" THEN TGGetConfigurationErrors
  ELSE IF b = "vk" THEN VKGetConfigurationErrors
  ELSE XGetConfigurationErrors

\* this.config.validate().errors of adapter b.
validate(b) ==
  IF b = "telegram" THEN TGValidate(env)
  ELSE IF b = "vk" THEN VKValidate(env)
  ELSE XValidate(env)

Send(b, net) ==
  IF b = "telegram" THEN TGSend(env, net)
  ELSE IF b = "vk" THEN VKSend(net)
  ELSE XSend(client, authMethod, net)

\* deleteMessage: the messaging and the microblog adapter define it.
DeleteMessage(b, net) ==
  IF b = "telegram" THEN TGDeleteMessage(env, net)
  ELSE XDeleteMessage(client, authMethod, net)

\* Content validation: the microblog ceiling; the other adapters accept all.
XLimit == 280

\* Faulty variant: the ceiling itself rejected.
validateMessageOffByOne(b, m) ==
  IF b = "x" /\ m >= XLimit
    THEN [isValid |-> FALSE,
          errors |-> <<"Message exceeds X.com character limit">>]
    ELSE [isValid |-> TRUE, errors |-> <<>>]

validateMessage(b, m) ==
  IF b = "x" /\ m > XLimit
    THEN [isValid |-> FALSE,
          errors |-> <<"Message exceeds X.com character limit">>]
    ELSE [isValid |-> TRUE, errors |-> <<>>]

(***************************************************************************)
(* The dispatcher: broadcast(message, platforms).                          *)
(***************************************************************************)
\* What a completed adapter call did on the wire.
RoundTrip(b, c) ==
  (IF c.userClient THEN <<Call("userClient.connect", b)>> ELSE <<>>)
  \o (IF c.netCalled THEN <<Call("net", b)>> ELSE <<>>)

getBroadcaster(name) ==
  IF \E i \in 1..Len(broadcasters) : broadcasters[i] = name THEN name ELSE Undefined

IsDefined(b) == b # Undefined

\* Faulty variant: 'all' honoured only as the whole list.
ResolveTargetsOnlyAll(p) ==
  IF p = <<"all">>
    THEN broadcasters
    ELSE SelectSeq([i \in 1..Len(p) |-> getBroadcaster(p[i])], IsDefined)

ResolveTargets(p) ==
  IF \E i \in 1..Len(p) : p[i] = "all"
    THEN broadcasters
    ELSE SelectSeq([i \in 1..Len(p) |-> getBroadcaster(p[i])], IsDefined)

\* One turn of the validation loop: what it records and what it calls.
\* Faulty variant: an adapter without validateMessage is rejected.
PreflightOneRequiresValidator(b, m) ==
  IF ~isConfigured(b)
    THEN [validationErrors |->
            <<[platform |-> b,
               errors |-> <<"Configuration errors: "
                            \o Join(getConfigurationErrors(b), ", ")>>]>>,
          calls |-> <<Call("isConfigured", b), Call("getConfigurationErrors", b)>>]
  ELSE IF b \in exposes
    THEN LET v == validateMessage(b, m) IN
         [validationErrors |->
            IF ~v.isValid THEN <<[platform |-> b, errors |-> v.errors]>> ELSE <<>>,
          calls |-> <<Call("isConfigured", b), Call("validateMessage", b)>>]
  ELSE [validationErrors |-> <<[platform |-> b, errors |-> <<"cannot validate">>]>>,
        calls |-> <<Call("isConfigured", b)>>]

\* Faulty variant: the isConfigured test left out.
PreflightOneSkipsConfig(b, m) ==
  IF b \in exposes
    THEN LET v == validateMessage(b, m) IN
         [validationErrors |->
            IF ~v.isValid THEN <<[platform |-> b, errors |-> v.errors]>> ELSE <<>>,
          calls |-> <<Call("validateMessage", b)>>]
    ELSE [validationErrors |-> <<>>, calls |-> <<>>]

PreflightOne(b, m) ==
  IF ~isConfigured(b)
    THEN [validationErrors |->
            <<[platform |-> b,
               errors |-> <<"Configuration errors: "
                            \o Join(getConfigurationErrors(b), ", ")>>]>>,
          calls |-> <<Call("isConfigured", b), Call("getConfigurationErrors", b)>>]
  ELSE IF b \in exposes
    THEN LET v == validateMessage(b, m) IN
         [validationErrors |->
            IF ~v.isValid THEN <<[platform |-> b, errors |-> v.errors]>> ELSE <<>>,
          calls |-> <<Call("isConfigured", b), Call("validateMessage", b)>>]
  ELSE [validationErrors |-> <<>>, calls |-> <<Call("isConfigured", b)>>]

RECURSIVE Preflight(_, _)
Preflight(t, m) ==
  IF Len(t) = 0 THEN [validationErrors |-> <<>>, calls |-> <<>>]
  ELSE LET one == PreflightOne(Head(t), m)
           rest == Preflight(Tail(t), m)
       IN [validationErrors |-> one.validationErrors \o rest.validationErrors,
           calls |-> one.calls \o rest.calls]

\* The gate: validationErrors.length > 0.
\* Faulty variant: the gate trips only when every selected adapter failed.
GateTripsOnlyIfAllFail(validationErrors, t) == Len(validationErrors) >= Len(t)

GateTrips(validationErrors, t) == Len(validationErrors) > 0

\* Faulty variant: a failure entry for every selected adapter.
GateResultsForAll(validationErrors, t) ==
  [i \in 1..Len(t) |-> [success |-> FALSE, platform |-> t[i], error |-> "validation failed"]]

GateResults(validationErrors, t) ==
  [i \in 1..Len(validationErrors) |->
     [success |-> FALSE,
      platform |-> validationErrors[i].platform,
      error |-> Join(validationErrors[i].errors, ", ")]]

\* The empty-selection test: targetBroadcasters.length === 0.
\* Faulty variant: the test left out.
NoTargetsNever(t) == FALSE

NoTargets(t) == Len(t) = 0

\* The sends the loop starts on reaching position i.
\* Faulty variant: every send started at once, none awaited first.
StartSendsAllAtOnce(t, i) ==
  IF i = 1 THEN [k \in 1..Len(t) |-> Call("send", t[k])] ELSE <<>>

StartSends(t, i) ==
  IF i <= Len(t) THEN <<Call("send", t[i])>> ELSE <<>>

\* try { results.push(await send) } catch (error) { results.push(failure) }
\* Faulty variant: the fault leaves the loop and broadcast().
CatchSendAborts(b, c) ==
  IF c.threw
    THEN [propagates |-> TRUE,
          entry |-> [success |-> FALSE, platform |-> b, error |-> c.message]]
    ELSE [propagates |-> FALSE, entry |-> c.value]

CatchSend(b, c) ==
  IF c.threw
    THEN [propagates |-> FALSE,
          entry |-> [success |-> FALSE, platform |-> b, error |-> c.message]]
    ELSE [propagates |-> FALSE, entry |-> c.value]

\* Faulty variant: a failed send ends the loop.
NextIdxStopsOnFailure(i, entry) ==
  IF entry.success THEN i + 1 ELSE i + MaxPlatforms + 2

\* The loop moves on after every outcome.
NextIdx(i, entry) == i + 1

(***************************************************************************)
(* Inputs.                                                                 *)
(***************************************************************************)
PlatformNames == {"telegram", "vk", "x", "all", "twitter"}

RECURSIVE SeqsUpTo(_, _)
SeqsUpTo(S, n) ==
  IF n = 0 THEN {<<>>}
  ELSE LET shorter == SeqsUpTo(S, n - 1) IN
       shorter \cup {Append(s, x) : s \in {q \in shorter : Len(q) = n - 1}, x \in S}

PlatformLists == SeqsUpTo(PlatformNames, MaxPlatforms)

\* Message lengths: at the ceiling, and up to MaxOver units over it.
Messages == XLimit..(XLimit + MaxOver)

\* Credential profiles of the environment: per platform, no scheme, each
\* complete scheme, and their combinations.
XProfiles ==
  { {},
    {"X_CLIENT_ID", "X_CLIENT_SECRET", "X_ACCESS_TOKEN", "X_ACCESS_TOKEN_SECRET"},
    {"X_API_KEY", "X_API_KEY_SECRET", "X_ACCESS_TOKEN", "X_ACCESS_TOKEN_SECRET"},
    {"X_CLIENT_ID", "X_CLIENT_SECRET", "X_API_KEY", "X_API_KEY_SECRET",
     "X_ACCESS_TOKEN", "X_ACCESS_TOKEN_SECRET"},
    {"X_BEARER_TOKEN"} }

TGProfiles ==
  { {},
    {"TELEGRAM_BOT_TOKEN", "TELEGRAM_CHANNEL_ID"},
    {"TELEGRAM_USER_BOT_API_ID", "TELEGRAM_USER_BOT_API_HASH",
     "TELEGRAM_USER_BOT_PHONE", "TELEGRAM_USER_BOT_CHAT_USERNAME"} }

VKProfiles == { {"VK_ACCESS_TOKEN"}, {"VK_ACCESS_TOKEN", "VK_GROUP_ID"} }

\* The wider environments of the adapter-level specification.
TGEnvs ==
  TGProfiles \cup
  { {"TELEGRAM_BOT_TOKEN"},
    {"TELEGRAM_CHANNEL_ID", "TELEGRAM_USER_BOT_API_ID", "TELEGRAM_USER_BOT_API_HASH"},
    {"TELEGRAM_BOT_TOKEN", "TELEGRAM_CHANNEL_ID", "TELEGRAM_USER_BOT_API_ID",
     "TELEGRAM_USER_BOT_API_HASH", "TELEGRAM_USER_BOT_PHONE",
     "TELEGRAM_USER_BOT_CHAT_ID"} }

XEnvs == SUBSET XEnvNames

VKEnvs == SUBSET VKEnvNames

\* The adapters that define validateMessage: in the adapter sources only the
\* microblog adapter's is called for; the contract gives it to all three.
ExposeSets == { {"x"}, {"telegram", "vk", "x"} }

AnyScheme(e) == hasOAuth2UserAuth(e) \/ hasOAuth1UserAuth(e) \/ hasBearerAuth(e)

(***************************************************************************)
(* Initial states: the module has been loaded, the three adapters are      *)
(* constructed (XBroadcaster's constructor has run initializeClient).      *)
(***************************************************************************)
Constructed(xe, ctorThrows) ==
  /\ client = XInitializeClient(xe, ctorThrows).client
  /\ authMethod = XInitializeClient(xe, ctorThrows).authMethod
  /\ ctorThrew = ctorThrows

Idle ==
  /\ pc = "idle"
  /\ exitCode = "none"
  /\ message = 0
  /\ platforms = <<>>
  /\ targetBroadcasters = <<>>
  /\ idx = 0
  /\ results = <<>>
  /\ trace = <<>>
  /\ observed = <<>>

Init ==
  /\ \E xe \in XProfiles, te \in TGProfiles, ve \in VKProfiles :
       /\ env = xe \cup te \cup ve
       /\ \E ctorThrows \in (IF AnyScheme(xe) THEN BOOLEAN ELSE {FALSE}) :
            Constructed(xe, ctorThrows)
  /\ exposes \in ExposeSets
  /\ sessionFile = StoredSession
  /\ Idle

(***************************************************************************)
(* broadcast(): the synchronous part (name resolution, validation loop,    *)
(* gate) up to the first await, then one step per completed send.          *)
(***************************************************************************)
Broadcast(m, p) ==
  /\ pc = "idle"
  /\ message' = m
  /\ platforms' = p
  /\ LET t == ResolveTargets(p)
         pre == Preflight(t, m)
     IN /\ targetBroadcasters' = t
        /\ IF NoTargets(t)
             THEN /\ trace' = <<Call("logger.error", "broadcast")>>
                  /\ results' = <<>>
                  /\ idx' = 0
                  /\ pc' = "returned"
           ELSE IF GateTrips(pre.validationErrors, t)
             THEN /\ trace' = pre.calls \o <<Call("logger.error", "broadcast")>>
                  /\ results' = GateResults(pre.validationErrors, t)
                  /\ idx' = 0
                  /\ pc' = "returned"
           ELSE /\ trace' = pre.calls \o StartSends(t, 1)
                /\ results' = <<>>
                /\ idx' = 1
                /\ pc' = IF Len(t) = 0 THEN "returned" ELSE "sending"
  /\ UNCHANGED <<env, exposes, client, ctorThrew, sessionFile, exitCode, authMethod, observed>>

\* The awaited send of targetBroadcasters[idx] completes with c.
AwaitSend(c) ==
  /\ pc = "sending"
  /\ LET b == targetBroadcasters[idx]
         h == CatchSend(b, c)
         done == RoundTrip(b, c)
                 \o <<Call(IF c.threw THEN "sendThrew" ELSE "sendReturned", b)>>
     IN IF h.propagates
          THEN /\ pc' = "threw"
               /\ trace' = trace \o done
               /\ UNCHANGED <<results, idx>>
          ELSE /\ results' = Append(results, h.entry)
               /\ idx' = NextIdx(idx, h.entry)
               /\ trace' = trace \o done \o StartSends(targetBroadcasters, idx')
               /\ pc' = IF idx' > Len(targetBroadcasters) THEN "returned" ELSE "sending"
  /\ UNCHANGED <<env, exposes, client, ctorThrew, sessionFile, exitCode, authMethod, message, platforms,
                 targetBroadcasters, observed>>

\* The adapter's send resolves with its Dispatch Result.
SendReturns ==
  /\ pc = "sending"
  /\ \E net \in NetOutcomes : AwaitSend(Send(targetBroadcasters[idx], net))

\* A fault escapes send: the case the loop's catch clause is written for.
SendFaults ==
  /\ pc = "sending"
  /\ AwaitSend(Throw("unexpected fault", FALSE))

Next ==
  \/ \E m \in Messages, p \in PlatformLists : Broadcast(m, p)
  \/ SendReturns
  \/ SendFaults

Spec == Init /\ [][Next]_vars

(***************************************************************************)
(* The adapters on their own: a caller (the test suites, the experiments)  *)
(* constructs the adapters in any environment and calls a method directly. *)
(* results holds what the last call returned, trace what it did.           *)
(***************************************************************************)
InitAdapters ==
  /\ \E xe \in XEnvs, te \in TGEnvs, ve \in VKEnvs :
       /\ env = xe \cup te \cup ve
       /\ \E ctorThrows \in (IF AnyScheme(xe) THEN BOOLEAN ELSE {FALSE}) :
            Constructed(xe, ctorThrows)
  /\ exposes = {"telegram", "vk", "x"}
  /\ sessionFile = StoredSession
  /\ Idle

\* await b.send(text), with the round trip ending in net.
DirectSend(b, net) ==
  /\ pc = "idle"
  /\ LET c == Send(b, net) IN
       /\ trace' = <<Call("send", b)>>
                    \o RoundTrip(b, c)
                    \o <<Call(IF c.threw THEN "sendThrew" ELSE "sendReturned", b)>>
       /\ results' = IF c.threw THEN <<>> ELSE <<c.value>>
  /\ UNCHANGED <<env, exposes, client, ctorThrew, sessionFile, exitCode, authMethod, pc, message, platforms,
                 targetBroadcasters, idx, observed>>

\* await b.deleteMessage(id), with the round trip ending in net.
DirectDelete(b, net) ==
  /\ pc = "idle"
  /\ LET c == DeleteMessage(b, net) IN
       /\ trace' = <<Call("deleteMessage", b)>>
                    \o RoundTrip(b, c)
                    \o <<Call(IF c.threw THEN "deleteThrew" ELSE "deleteReturned", b)>>
       /\ results' = IF c.threw THEN <<>> ELSE <<c.value>>
  /\ UNCHANGED <<env, exposes, client, ctorThrew, sessionFile, exitCode, authMethod, pc, message, platforms,
                 targetBroadcasters, idx, observed>>

NextAdapters ==
  \/ \E b \in {"telegram", "vk", "x"}, net \in NetOutcomes : DirectSend(b, net)
  \/ \E b \in {"telegram", "x"}, net \in NetOutcomes : DirectDelete(b, net)

SpecAdapters == InitAdapters /\ [][NextAdapters]_vars

(***************************************************************************)
(* The messaging adapter on its user-client scheme, called directly and    *)
(* step by step: trace holds, between the call and its return, every file  *)
(* and client operation of the last call; sessionFile is the session file  *)
(* the calls leave behind.                                                 *)
(***************************************************************************)
UserOnlyEnvs == {e \in TGEnvs : ~hasBotAuth(e) /\ hasUserAuth(e)}

InitUser ==
  /\ env \in UserOnlyEnvs
  /\ Constructed({}, FALSE)
  /\ exposes = {"telegram", "vk", "x"}
  /\ sessionFile \in {AbsentSession, StoredSession}
  /\ Idle

\* await telegram.send(text) on the branch that reaches sendViaUser.
DirectUserSend(u) ==
  /\ pc = "idle"
  /\ ~hasBotAuth(env) /\ hasUserAuth(env)
  /\ LET body == sendViaUserWith(env, sessionFile, u)
         c == TGCatch(body)
     IN /\ trace' = <<Call("send", "telegram")>> \o body.effects
                      \o <<Call("sendReturned", "telegram")>>
        /\ results' = <<c.value>>
        /\ sessionFile' = body.file
  /\ UNCHANGED <<env, exposes, client, ctorThrew, exitCode, authMethod, pc,
                 message, platforms, targetBroadcasters, idx, observed>>

\* await telegram.deleteMessage(id, chatEntity) on the branch that reaches
\* deleteViaUser.
DirectUserDelete(u, chatEntity) ==
  /\ pc = "idle"
  /\ ~hasBotAuth(env) /\ hasUserAuth(env)
  /\ LET body == deleteViaUserWith(env, sessionFile, u, chatEntity)
         c == TGCatch(body)
     IN /\ trace' = <<Call("deleteMessage", "telegram") @@ [chatEntity |-> chatEntity]>>
                      \o body.effects
                      \o <<Call("deleteReturned", "telegram")>>
        /\ results' = <<c.value>>
        /\ sessionFile' = body.file
  /\ UNCHANGED <<env, exposes, client, ctorThrew, exitCode, authMethod, pc,
                 message, platforms, targetBroadcasters, idx, observed>>

NextUser ==
  \/ \E u \in UserRuns : DirectUserSend(u)
  \/ \E u \in UserRuns, chatEntity \in Entities \cup {NoEntity} :
       DirectUserDelete(u, chatEntity)

SpecUser == InitUser /\ [][NextUser]_vars

(***************************************************************************)
(* test() of the three adapters and testBroadcasters, the loop of the      *)
(* test-configuration command.  One run of test() meets n: the outcome of  *)
(* its first round trip (n.net: the canary send, or v2.me()) and of the    *)
(* cleanup (n.cleanup); Fault stands for a call that throws instead of     *)
(* returning a result.                                                     *)
(***************************************************************************)
Fault == [kind |-> "fault", message |-> "unexpected fault"]
TestRuns == [net : NetOutcomes \cup {Fault}, cleanup : NetOutcomes \cup {Fault}]

\* How an awaited adapter call came back, as a history entry.
Came(op, b, c) ==
  IF c.threw THEN Call(op \o "Threw", b)
  ELSE Call(op \o "Returned", b) @@ [value |-> c.value]

\* await this.send(testMessage) / this.deleteMessage(...) inside test().
Attempt(b, net, call) == IF net.kind = "fault" THEN Throw(net.message, FALSE) ELSE call

TestResult(value, calls) == [value |-> value, calls |-> calls]

\* Faulty variant: a cleanup that did not succeed fails the test.
TGTestCleanupCounts(n) ==
  LET sent == Attempt("telegram", n.net, TGSend(env, n.net))
      canary == <<Call("send", "telegram"), Came("send", "telegram", sent)>>
  IN IF sent.threw
       THEN TestResult([success |-> FALSE, platform |-> "telegram",
                        message |-> "Telegram: " \o sent.message], canary)
     ELSE IF sent.value.success
       THEN LET deleted == Attempt("telegram", n.cleanup, TGDeleteMessage(env, n.cleanup))
            IN TestResult([success |-> ~deleted.threw /\ deleted.value.success,
                           platform |-> "telegram",
                           message |-> "Telegram: Connection successful"],
                          canary
                          \o <<Call("deleteMessage", "telegram")
                                 @@ [messageId |-> sent.value.messageId],
                               Came("delete", "telegram", deleted)>>)
     ELSE TestResult([success |-> FALSE, platform |-> "telegram",
                      message |-> "Telegram: " \o sent.value.error], canary)

TGTest(n) ==
  LET sent == Attempt("telegram", n.net, TGSend(env, n.net))
      canary == <<Call("send", "telegram"), Came("send", "telegram", sent)>>
  IN IF sent.threw
       THEN TestResult([success |-> FALSE, platform |-> "telegram",
                        message |-> "Telegram: " \o sent.message], canary)
     ELSE IF sent.value.success
       THEN LET deleted == Attempt("telegram", n.cleanup, TGDeleteMessage(env, n.cleanup))
            IN TestResult([success |-> TRUE, platform |-> "telegram",
                           message |-> "Telegram: Connection successful"],
                          canary
                          \o <<Call("deleteMessage", "telegram")
                                 @@ [messageId |-> sent.value.messageId],
                               Came("delete", "telegram", deleted)>>)
     ELSE TestResult([success |-> FALSE, platform |-> "telegram",
                      message |-> "Telegram: " \o sent.value.error], canary)

VKTest(n) ==
  LET sent == Attempt("vk", n.net, VKSend(n.net))
      canary == <<Call("send", "vk"), Came("send", "vk", sent)>>
  IN IF sent.threw
       THEN TestResult([success |-> FALSE, platform |-> "vk",
                        message |-> "VK: " \o sent.message], canary)
     ELSE IF sent.value.success
       THEN TestResult([success |-> TRUE, platform |-> "vk",
                        message |-> "VK: Connection successful"], canary)
     ELSE TestResult([success |-> FALSE, platform |-> "vk",
                      message |-> "VK: " \o sent.value.error], canary)

\* Faulty variant: the microblog adapter posts a canary as the other two do.
XTestPostsCanary(n) ==
  LET sent == Attempt("x", n.net, XSend(client, authMethod, n.net))
      canary == <<Call("send", "x"), Came("send", "x", sent)>>
  IN IF sent.threw
       THEN TestResult([success |-> FALSE, platform |-> "x",
                        message |-> "X.com: " \o sent.message], canary)
     ELSE IF sent.value.success
       THEN TestResult([success |-> TRUE, platform |-> "x",
                        message |-> "X.com: Connection successful"], canary)
     ELSE TestResult([success |-> FALSE, platform |-> "x",
                      message |-> "X.com: " \o sent.value.error], canary)

\* The microblog adapter's test(): no post; v2.me() unless the scheme is the
\* bearer token.
XTest(n) ==
  IF ~XIsConfigured
    THEN TestResult([success |-> FALSE, platform |-> "x",
                     message |-> "X.com: Configuration errors - "
                                 \o Join(XGetConfigurationErrors, ", ")], <<>>)
  ELSE IF authMethod = "Bearer Token"
    THEN TestResult([success |-> TRUE, platform |-> "x",
                     message |-> "X.com: Bearer token authentication configured (limited functionality - cannot post/delete tweets)"],
                    <<>>)
  ELSE IF n.net.kind = "ok"
    THEN TestResult([success |-> TRUE, platform |-> "x",
                     message |-> "X.com: Connection successful using " \o authMethod],
                    <<Call("v2.me", "x"), Call("v2.meReturned", "x")>>)
  ELSE TestResult([success |-> FALSE, platform |-> "x",
                   message |-> "X.com: " \o n.net.message],
                  <<Call("v2.me", "x"), Call("v2.meThrew", "x")>>)

test(b, n) ==
  IF b = "telegram" THEN TGTest(n)
  ELSE IF b = "vk" THEN VKTest(n)
  ELSE XTest(n)

\* Faulty variant: the run fails only when every adapter failed.
AllFailed(rs) == \A k \in DOMAIN rs : ~rs[k].success

\* failedCount > 0
AnyFailed(rs) == \E k \in DOMAIN rs : ~rs[k].success

\* testBroadcasters(), up to the first await: the iterations that need no
\* await run at once.
RECURSIVE TestLoop(_, _, _)
TestLoop(i, rs, t) ==
  IF i > Len(broadcasters) THEN [idx |-> i, results |-> rs, trace |-> t]
  ELSE IF ~isConfigured(broadcasters[i])
    THEN TestLoop(i + 1,
                  Append(rs, [success |-> FALSE, platform |-> broadcasters[i]]),
                  t \o <<Call("isConfigured", broadcasters[i]),
                         Call("getConfigurationErrors", broadcasters[i])>>)
  ELSE [idx |-> i, results |-> rs,
        trace |-> t \o <<Call("isConfigured", broadcasters[i]),
                         Call("test", broadcasters[i])>>]

\* The loop runs on from position i with rs and t; after the last adapter
\* the failures are counted and process.exit(1) is called if there are any.
TestLoopFrom(i, rs, t) ==
  LET l == TestLoop(i, rs, t) IN
  /\ idx' = l.idx
  /\ results' = l.results
  /\ trace' = l.trace
  /\ IF l.idx > Len(broadcasters)
       THEN /\ pc' = "exited"
            /\ exitCode' = IF AnyFailed(l.results) THEN "1" ELSE "0"
       ELSE /\ pc' = "testing"
            /\ UNCHANGED exitCode
  /\ UNCHANGED <<env, exposes, client, ctorThrew, sessionFile, authMethod,
                 message, platforms, targetBroadcasters, observed>>

TestBroadcasters ==
  /\ pc = "idle"
  /\ TestLoopFrom(1, <<>>, <<>>)

\* await broadcaster.test() resolved: the result is pushed.
TestReturns(n) ==
  /\ pc = "testing"
  /\ LET b == broadcasters[idx]
         c == test(b, n)
     IN TestLoopFrom(idx + 1, Append(results, c.value),
                     trace \o c.calls \o <<Call("testReturned", b)>>)

\* await broadcaster.test() rejected: catch (error) pushes a failure.
TestFaults ==
  /\ pc = "testing"
  /\ LET b == broadcasters[idx]
     IN TestLoopFrom(idx + 1, Append(results, [success |-> FALSE, platform |-> b]),
                     trace \o <<Call("testThrew", b)>>)

NextTest ==
  \/ TestBroadcasters
  \/ \E n \in TestRuns : TestReturns(n)
  \/ TestFaults

SpecTest == Init /\ [][NextTest]_vars

(***************************************************************************)
(* The command-line front end: the body of the async main function, from   *)
(* the parsed arguments to the exit code.  argv.platforms arrives as the   *)
(* list of its comma-separated tokens, as typed.                           *)
(***************************************************************************)
RawNames == {"telegram", " VK", "X", "all", "twitter"}

\* p.trim().toLowerCase() on the tokens above.
TrimLower(token) ==
  IF token = " VK" THEN "vk"
  ELSE IF token = "X" THEN "x"
  ELSE token

SplitPlatforms(raw) == [i \in DOMAIN raw |-> TrimLower(raw[i])]

validPlatforms == broadcasters \o <<"all">>

IsInvalidPlatform(name) == \A i \in DOMAIN validPlatforms : validPlatforms[i] # name

\* Faulty variant: every name is let through.
invalidPlatformsNone(p) == <<>>

invalidPlatforms(p) == SelectSeq(p, IsInvalidPlatform)

\* Faulty variant: the test flag is not looked at.
TestModeIgnored(flag) == FALSE

\* if (argv.test)
TestMode(flag) == flag

CliLog(op) == Call(op, "cli")

\* The front end stops before broadcast(): exit code and what it printed.
StopBefore(code, printed) ==
  /\ pc' = "exited"
  /\ exitCode' = code
  /\ trace' = <<CliLog(printed)>>
  /\ UNCHANGED <<env, exposes, client, ctorThrew, sessionFile, authMethod,
                 targetBroadcasters, idx, results, observed>>

Main(m, raw, flag) ==
  /\ pc = "idle"
  /\ IF m = 0
       THEN /\ StopBefore("1", "console.error: Message is required")
            /\ UNCHANGED <<message, platforms>>
     ELSE IF Len(invalidPlatforms(SplitPlatforms(raw))) > 0
       THEN /\ StopBefore("1", "console.error: Invalid platforms")
            /\ message' = m
            /\ platforms' = SplitPlatforms(raw)
     ELSE IF TestMode(flag)
       THEN /\ StopBefore("0", "console.log: Test completed (no actual send)")
            /\ message' = m
            /\ platforms' = SplitPlatforms(raw)
     ELSE Broadcast(m, SplitPlatforms(raw))

\* await broadcast(...) has settled: the results are printed and counted, or
\* the catch clause reports the fault.
MainExit ==
  /\ pc \in {"returned", "threw"}
  /\ pc' = "exited"
  /\ IF pc = "threw"
       THEN /\ exitCode' = "1"
            /\ trace' = Append(trace, CliLog("console.error: Broadcast failed"))
       ELSE /\ exitCode' = IF AnyFailed(results) THEN "1" ELSE "0"
            /\ trace' = Append(trace, CliLog("console.log: Results"))
  /\ UNCHANGED <<env, exposes, client, ctorThrew, sessionFile, authMethod,
                 message, platforms, targetBroadcasters, idx, results, observed>>

\* split(',') never returns an empty list.
RawLists == SeqsUpTo(RawNames, MaxPlatforms) \ {<<>>}

\* The front end does not look at the schemes: one profile per kind of
\* transport is enough here.
CliXProfiles == {xe \in XProfiles : ~hasOAuth2UserAuth(xe)}
CliTGProfiles == {te \in TGProfiles : ~hasUserAuth(te)}

InitCli ==
  /\ \E xe \in CliXProfiles, te \in CliTGProfiles, ve \in VKProfiles :
       /\ env = xe \cup te \cup ve
       /\ Constructed(xe, FALSE)
  /\ exposes = {"telegram", "vk", "x"}
  /\ sessionFile = StoredSession
  /\ Idle

NextCli ==
  \/ \E m \in {0} \cup Messages, raw \in RawLists, flag \in BOOLEAN : Main(m, raw, flag)
  \/ SendReturns
  \/ SendFaults
  \/ MainExit

SpecCli == InitCli /\ [][NextCli]_vars

(***************************************************************************)
(* The query methods called directly: config.validate(), isConfigured(),   *)
(* getConfigurationErrors(), validateMessage(text).  observed holds each   *)
(* call made with the value it returned.                                   *)
(***************************************************************************)
Observation(op, b, arg, value) ==
  [op |-> op, platform |-> b, arg |-> arg, value |-> value]

Observe(q) ==
  /\ pc = "idle"
  /\ observed' = Append(observed, q)
  /\ UNCHANGED <<env, exposes, client, ctorThrew, sessionFile, exitCode, authMethod, pc, message, platforms,
                 targetBroadcasters, idx, results, trace>>

DirectValidate(b) == Observe(Observation("validate", b, 0, validate(b)))

DirectIsConfigured(b) == Observe(Observation("isConfigured", b, 0, isConfigured(b)))

DirectGetConfigurationErrors(b) ==
  Observe(Observation("getConfigurationErrors", b, 0, getConfigurationErrors(b)))

DirectValidateMessage(b, m) ==
  /\ b \in exposes
  /\ Observe(Observation("validateMessage", b, m, validateMessage(b, m)))

\* await b.send(text) between two queries: what it returned is an entry too.
ObservedSend(b, net) ==
  LET c == Send(b, net) IN
  Observe(Observation("send", b, 0, IF c.threw THEN "threw" ELSE c.value.success))

\* Text lengths around the ceiling, and the empty text.
Lengths == {0} \cup ((XLimit - MaxOver)..(XLimit + MaxOver))

\* One query on freshly constructed adapters, for every setting of one
\* platform's variables (the three configs read disjoint variables).
TGAllEnvs == SUBSET TGEnvNames

InitQueries ==
  /\ env \in XEnvs \cup TGAllEnvs \cup VKEnvs
  /\ \E ctorThrows \in (IF AnyScheme(env) THEN BOOLEAN ELSE {FALSE}) :
       Constructed(env, ctorThrows)
  /\ exposes = {"telegram", "vk", "x"}
  /\ sessionFile = StoredSession
  /\ Idle

NextQueries ==
  /\ observed = <<>>
  /\ \/ \E b \in {"telegram", "vk", "x"} : DirectValidate(b)
     \/ \E b \in {"telegram", "vk", "x"} : DirectIsConfigured(b)
     \/ \E b \in {"telegram", "vk", "x"} : DirectGetConfigurationErrors(b)
     \/ \E b \in {"telegram", "vk", "x"}, m \in Lengths : DirectValidateMessage(b, m)

SpecQueries == InitQueries /\ [][NextQueries]_vars

\* Up to MaxCalls calls in a row on the same adapters, sends among them.
InitRepeat ==
  /\ \E xe \in XProfiles :
       /\ env = xe \cup {"TELEGRAM_BOT_TOKEN", "TELEGRAM_CHANNEL_ID", "VK_ACCESS_TOKEN"}
       /\ \E ctorThrows \in (IF AnyScheme(xe) THEN BOOLEAN ELSE {FALSE}) :
            Constructed(xe, ctorThrows)
  /\ exposes = {"telegram", "vk", "x"}
  /\ sessionFile = StoredSession
  /\ Idle

NextRepeat ==
  /\ Len(observed) < MaxCalls
  /\ \/ \E b \in {"telegram", "vk", "x"} : DirectIsConfigured(b)
     \/ \E b \in {"telegram", "vk", "x"} : DirectGetConfigurationErrors(b)
     \/ \E b \in {"telegram", "vk", "x"}, m \in Messages : DirectValidateMessage(b, m)
     \/ \E b \in {"telegram", "vk", "x"}, net \in NetOutcomes : ObservedSend(b, net)

SpecRepeat == InitRepeat /\ [][NextRepeat]_vars

(***************************************************************************)
(* Vocabulary of the properties.                                           *)
(***************************************************************************)
Targets == DOMAIN targetBroadcasters

\* Adapter b fails the pre-flight pass for the current message.
FailsPreflight(b) ==
  \/ ~isConfigured(b)
  \/ b \in exposes /\ ~validateMessage(b, message).isValid

GateFails == \E i \in Targets : FailsPreflight(targetBroadcasters[i])

IsSendCall(e) == e.op = "send"
IsCompletion(e) == e.op \in {"sendReturned", "sendThrew"}

NoSendAttempted == \A j \in DOMAIN trace : trace[j].op \notin {"send", "net"}

\* The error text the pre-flight pass records for a failing adapter.
PreflightError(b) ==
  IF ~isConfigured(b)
    THEN "Configuration errors: " \o Join(getConfigurationErrors(b), ", ")
    ELSE Join(validateMessage(b, message).errors, ", ")

(***************************************************************************)
(* C1  All-or-nothing gate: when at least one selected adapter is          *)
(* unconfigured or rejects the message, broadcast() calls send on no       *)
(* selected adapter, and no network round trip is made.                    *)
(***************************************************************************)
AllOrNothingGate ==
  (pc # "idle" /\ GateFails) => NoSendAttempted

\* A call with one adapter failing and another passing pre-flight has returned.
AllOrNothingGateWitness ==
  /\ pc = "returned"
  /\ \E i, k \in Targets :
       /\ FailsPreflight(targetBroadcasters[i])
       /\ ~FailsPreflight(targetBroadcasters[k])
  /\ NoSendAttempted

(***************************************************************************)
(* C2  When the gate trips, broadcast() returns exactly the recorded       *)
(* failures: one success:false entry per selected adapter that failed      *)
(* pre-flight, in selection order, none for an adapter that passed; an     *)
(* unconfigured adapter gets the configuration-error entry and its         *)
(* validateMessage is never called.                                        *)
(***************************************************************************)
GateReturnsRecordedFailures ==
  (pc = "returned" /\ GateFails) =>
    LET failing == SelectSeq(targetBroadcasters, FailsPreflight) IN
    /\ Len(results) = Len(failing)
    /\ \A k \in DOMAIN results :
         /\ results[k].platform = failing[k]
         /\ results[k].success = FALSE
         /\ results[k].error = PreflightError(failing[k])
    /\ \A j \in DOMAIN trace :
         trace[j].op = "validateMessage" => isConfigured(trace[j].platform)

\* Two adapters selected, the gate tripped on an unconfigured one only, and
\* the configured one was asked to validate the message.
GateReturnsRecordedFailuresWitness ==
  /\ pc = "returned"
  /\ Len(targetBroadcasters) = 2
  /\ Len(results) = 1
  /\ ~isConfigured(results[1].platform)
  /\ \E j \in DOMAIN trace : trace[j].op = "validateMessage"

(***************************************************************************)
(* C3  A message longer than 280 units sent to the configured pair         *)
(* {x, vk}.  As claimed: the result list has exactly 2 entries, both       *)
(* success:false, and no send is attempted.                                *)
(***************************************************************************)
LongToMicroblogAndWall ==
  /\ pc = "returned"
  /\ message > XLimit
  /\ Len(platforms) = 2
  /\ {platforms[i] : i \in DOMAIN platforms} = {"x", "vk"}
  /\ isConfigured("x") /\ isConfigured("vk")

LongMessageTwoFailures ==
  LongToMicroblogAndWall =>
    /\ Len(results) = 2
    /\ \A k \in DOMAIN results : results[k].success = FALSE
    /\ NoSendAttempted

(***************************************************************************)
(* C3, amended: the result list has exactly 1 entry, the success:false     *)
(* entry of x (the adapter that rejected the message); vk, which passed    *)
(* validation, has no entry; no send is attempted on either adapter.       *)
(***************************************************************************)
LongMessageOneFailure ==
  LongToMicroblogAndWall =>
    /\ Len(results) = 1
    /\ results[1].platform = "x"
    /\ results[1].success = FALSE
    /\ NoSendAttempted

LongMessageOneFailureWitness ==
  /\ LongToMicroblogAndWall
  /\ platforms = <<"vk", "x">>
  /\ Len(results) = 1

(***************************************************************************)
(* C4  When pre-flight records no failure, send is called on every         *)
(* selected adapter in selection order, each send starting only after      *)
(* every earlier one has completed, and the returned list has one result   *)
(* per selected adapter, the i-th belonging to the i-th selected adapter.  *)
(***************************************************************************)
SendCalls == SelectSeq(trace, IsSendCall)
Completions == SelectSeq(trace, IsCompletion)

CountBefore(j, Test(_)) == Cardinality({k \in 1..(j - 1) : Test(trace[k])})

SequentialSends ==
  /\ \A j \in DOMAIN trace :
       IsSendCall(trace[j]) => CountBefore(j, IsSendCall) = CountBefore(j, IsCompletion)
  /\ \A k \in DOMAIN SendCalls :
       k \in Targets /\ SendCalls[k].platform = targetBroadcasters[k]
  /\ \A k \in DOMAIN Completions :
       k \in Targets /\ Completions[k].platform = targetBroadcasters[k]
  /\ (pc = "returned" /\ Len(targetBroadcasters) > 0 /\ ~GateFails) =>
       /\ Len(SendCalls) = Len(targetBroadcasters)
       /\ Len(Completions) = Len(targetBroadcasters)
       /\ Len(results) = Len(targetBroadcasters)
       /\ \A i \in Targets : results[i].platform = targetBroadcasters[i]

\* 'all' was dispatched and the three sends ran to the end, in order.
SequentialSendsWitness ==
  /\ pc = "returned"
  /\ Len(results) = 3
  /\ [k \in DOMAIN SendCalls |-> SendCalls[k].platform] = <<"telegram", "vk", "x">>

(***************************************************************************)
(* C5  Name resolution: a list holding 'all' selects telegram, vk, x in    *)
(* registration order whatever else it holds; any other list selects the   *)
(* adapters of its recognised names in request order and drops the rest.   *)
(***************************************************************************)
Recognised == {i \in DOMAIN platforms : platforms[i] \in {"telegram", "vk", "x"}}

NameResolution ==
  pc # "idle" =>
    IF \E i \in DOMAIN platforms : platforms[i] = "all"
      THEN targetBroadcasters = <<"telegram", "vk", "x">>
      ELSE /\ Len(targetBroadcasters) = Cardinality(Recognised)
           /\ \A i \in Recognised :
                targetBroadcasters[Cardinality({j \in Recognised : j <= i})] = platforms[i]

\* 'all' named after another platform: the three adapters, registration order.
NameResolutionWitness ==
  /\ pc # "idle"
  /\ platforms = <<"x", "all">>
  /\ targetBroadcasters = <<"telegram", "vk", "x">>

(***************************************************************************)
(* C6  When no requested name is recognised (or the list is empty),        *)
(* broadcast() logs one error and returns the empty list: it does not      *)
(* throw and calls no adapter method.                                      *)
(***************************************************************************)
NothingRequested ==
  \A i \in DOMAIN platforms : platforms[i] \notin {"telegram", "vk", "x", "all"}

EmptySelectionReported ==
  (pc # "idle" /\ NothingRequested) =>
    /\ pc = "returned"
    /\ results = <<>>
    /\ trace = <<Call("logger.error", "broadcast")>>

EmptySelectionReportedWitness ==
  /\ pc = "returned"
  /\ platforms = <<"twitter">>
  /\ targetBroadcasters = <<>>
  /\ Len(trace) = 1

(***************************************************************************)
(* C7  A fault thrown by an adapter's send in the send phase becomes the   *)
(* entry {success:false, platform: that adapter, error: the message};      *)
(* the next selected adapter's send is still called; broadcast() does not  *)
(* throw.                                                                  *)
(***************************************************************************)
SendFaultIsolated ==
  /\ pc # "threw"
  /\ \A k \in DOMAIN Completions :
       Completions[k].op = "sendThrew" =>
         /\ k \in DOMAIN results
         /\ results[k] = [success |-> FALSE, platform |-> targetBroadcasters[k],
                          error |-> "unexpected fault"]
         /\ k < Len(targetBroadcasters) =>
              /\ Len(SendCalls) > k
              /\ SendCalls[k + 1].platform = targetBroadcasters[k + 1]

\* The first send threw, the second was still made and succeeded.
SendFaultIsolatedWitness ==
  /\ pc = "returned"
  /\ Len(Completions) = 2
  /\ Completions[1].op = "sendThrew"
  /\ Len(results) = 2
  /\ results[2].success

(***************************************************************************)
(* C9  Single attempt per platform: in one broadcast() call each platform  *)
(* receives at most one send call and contributes at most one result,      *)
(* also when the requested list names a platform more than once.           *)
(***************************************************************************)
SingleAttemptPerPlatform ==
  \A b \in {"telegram", "vk", "x"} :
    /\ Cardinality({j \in DOMAIN trace : trace[j] = Call("send", b)}) <= 1
    /\ Cardinality({k \in DOMAIN results : results[k].platform = b}) <= 1

(***************************************************************************)
(* C8  Adapter boundary (checked under SpecAdapters): send of each of the  *)
(* three adapters never throws; whatever the round trip ends in, and also  *)
(* without a client or any credential, it returns a result with the        *)
(* adapter's own name as platform and a boolean success, and every         *)
(* success:false result carries a non-empty error string.                  *)
(***************************************************************************)
SendNeverThrows ==
  /\ \A j \in DOMAIN trace : trace[j].op # "sendThrew"
  /\ trace # <<>> =>
       /\ Len(results) = 1
       /\ results[1].platform = trace[1].platform
       /\ results[1].success \in BOOLEAN
       /\ ~results[1].success =>
            /\ "error" \in DOMAIN results[1]
            /\ results[1].error # ""

\* X.com send called with no client handle: a failure result, no round trip.
SendNeverThrowsWitness ==
  /\ ~client.built
  /\ trace = <<Call("send", "x"), Call("sendReturned", "x")>>
  /\ results = <<[success |-> FALSE, platform |-> "x",
                  error |-> "X.com client not initialized - check authentication credentials"]>>

(***************************************************************************)
(* C10 X.com credential priority (checked under SpecAdapters): at most     *)
(* one scheme is active, and it is the highest-priority complete one in    *)
(* the order OAuth 2.0 > OAuth 1.0a > Bearer token.  With both OAuth       *)
(* schemes complete the method is 'OAuth 2.0 User', the client is built    *)
(* from the client id/secret and not from the API key/secret, and a        *)
(* successful send reports 'OAuth 2.0 User'.                               *)
(***************************************************************************)
CredentialPriority ==
  /\ authMethod \in {"OAuth 2.0 User", "OAuth 1.0a User", "Bearer Token", Undefined}
  /\ client.built <=> authMethod # Undefined
  /\ authMethod = "OAuth 2.0 User" => hasOAuth2UserAuth(env)
  /\ authMethod = "OAuth 1.0a User" =>
       hasOAuth1UserAuth(env) /\ ~hasOAuth2UserAuth(env)
  /\ authMethod = "Bearer Token" =>
       hasBearerAuth(env) /\ ~hasOAuth1UserAuth(env) /\ ~hasOAuth2UserAuth(env)
  /\ (hasOAuth2UserAuth(env) /\ hasOAuth1UserAuth(env) /\ client.built) =>
       /\ authMethod = "OAuth 2.0 User"
       /\ {"X_CLIENT_ID", "X_CLIENT_SECRET"} \subseteq client.uses
       /\ client.uses \cap {"X_API_KEY", "X_API_KEY_SECRET"} = {}
       /\ \A k \in DOMAIN results :
            (results[k].platform = "x" /\ results[k].success) =>
              results[k].method = "OAuth 2.0 User"

\* Both OAuth schemes complete, and a tweet was posted.
CredentialPriorityWitness ==
  /\ hasOAuth2UserAuth(env) /\ hasOAuth1UserAuth(env)
  /\ Len(results) = 1
  /\ results[1].platform = "x"
  /\ results[1].success
  /\ results[1].method = "OAuth 2.0 User"

(***************************************************************************)
(* C11 Telegram credential priority (checked under SpecAdapters): with the *)
(* bot scheme complete, send and deleteMessage go through the Bot API and  *)
(* the user client is never connected, also when the user scheme is        *)
(* complete too; the user client is used only when the bot scheme is       *)
(* incomplete and the user scheme complete; with neither complete both     *)
(* operations return success:false with 'No valid authentication method    *)
(* configured' and make no round trip.                                     *)
(***************************************************************************)
OnTelegram ==
  /\ trace # <<>>
  /\ trace[1].platform = "telegram"
  /\ trace[1].op \in {"send", "deleteMessage"}

UserClientConnected == \E j \in DOMAIN trace : trace[j].op = "userClient.connect"

MessagingPriority ==
  OnTelegram =>
    /\ Len(results) = 1
    /\ hasBotAuth(env) =>
         /\ ~UserClientConnected
         /\ \E j \in DOMAIN trace : trace[j] = Call("net", "telegram")
         /\ results[1].success => results[1].method = "bot"
    /\ UserClientConnected <=> (~hasBotAuth(env) /\ hasUserAuth(env))
    /\ (UserClientConnected /\ results[1].success) => results[1].method = "user"
    /\ (~hasBotAuth(env) /\ ~hasUserAuth(env)) =>
         /\ results[1] = [success |-> FALSE, platform |-> "telegram",
                          error |-> "No valid authentication method configured"]
         /\ \A j \in DOMAIN trace : trace[j].op # "net"

\* Both schemes complete: a message was deleted through the Bot API, and the
\* user client stayed unconnected.
MessagingPriorityWitness ==
  /\ hasBotAuth(env) /\ hasUserAuth(env)
  /\ trace = <<Call("deleteMessage", "telegram"), Call("net", "telegram"),
               Call("deleteReturned", "telegram")>>
  /\ results[1].success
  /\ results[1].method = "bot"

(***************************************************************************)
(* C12 Partial-scheme detection (checked under SpecQueries), the case the  *)
(* claim singles out: with X_CLIENT_ID set and X_CLIENT_SECRET unset,      *)
(* isConfigured() of the x adapter is false and getConfigurationErrors()   *)
(* holds the entry naming the missing client secret, whatever else is set. *)
(***************************************************************************)
ClientSecretMissing == "X_CLIENT_ID" \in env /\ "X_CLIENT_SECRET" \notin env

\* The error texts that name X_CLIENT_SECRET.
NamesClientSecret(err) ==
  err \in {"X_CLIENT_SECRET is required for OAuth 2.0 user auth", XNoSchemeError}

PartialSchemeReported ==
  \A k \in DOMAIN observed :
    (observed[k].platform = "x" /\ ClientSecretMissing) =>
      /\ observed[k].op = "isConfigured" => observed[k].value = FALSE
      /\ observed[k].op \in {"validate", "getConfigurationErrors"} =>
           \E i \in DOMAIN observed[k].value : NamesClientSecret(observed[k].value[i])

(***************************************************************************)
(* C13 For the telegram and the x credential resolver and every setting of *)
(* the credential fields (checked under SpecQueries), validate() returns a *)
(* non-empty error list if and only if no scheme of the platform has all   *)
(* its required fields set; with two complete schemes the list is empty.   *)
(***************************************************************************)
XCompleteSchemes ==
  Cardinality({f \in { {"X_CLIENT_ID", "X_CLIENT_SECRET", "X_ACCESS_TOKEN", "X_ACCESS_TOKEN_SECRET"},
                       {"X_API_KEY", "X_API_KEY_SECRET", "X_ACCESS_TOKEN", "X_ACCESS_TOKEN_SECRET"},
                       {"X_BEARER_TOKEN"} } : f \subseteq env})

TGCompleteSchemes ==
  Cardinality({f \in { {"TELEGRAM_BOT_TOKEN", "TELEGRAM_CHANNEL_ID"},
                       {"TELEGRAM_USER_BOT_API_ID", "TELEGRAM_USER_BOT_API_HASH",
                        "TELEGRAM_USER_BOT_PHONE"} } :
                 /\ f \subseteq env
                 /\ "TELEGRAM_USER_BOT_API_ID" \in f =>
                      ("TELEGRAM_USER_BOT_CHAT_USERNAME" \in env
                       \/ "TELEGRAM_USER_BOT_CHAT_ID" \in env)})

CompleteSchemes(b) == IF b = "x" THEN XCompleteSchemes ELSE TGCompleteSchemes

ValidateFailsIffNoScheme ==
  \A k \in DOMAIN observed :
    (observed[k].op = "validate" /\ observed[k].platform \in {"telegram", "x"}) =>
      (observed[k].value # <<>> <=> CompleteSchemes(observed[k].platform) = 0)

\* validate() of the x config with a bearer token and both OAuth schemes.
ValidateFailsIffNoSchemeWitness ==
  /\ Len(observed) = 1
  /\ observed[1].op = "validate"
  /\ observed[1].platform = "x"
  /\ XCompleteSchemes = 3
  /\ observed[1].value = <<>>

(***************************************************************************)
(* C14 For every adapter, credential setting and client-handle state       *)
(* (checked under SpecQueries), isConfigured() is true if and only if      *)
(* getConfigurationErrors() is empty; for the x adapter the error list is  *)
(* the validation errors plus the one entry 'Failed to initialize X.com    *)
(* client' exactly when validation passed and the client handle is null.   *)
(***************************************************************************)
ConfiguredIffNoErrors ==
  \A k \in DOMAIN observed :
    LET q == observed[k] IN
    /\ q.op = "isConfigured" =>
         (q.value <=> getConfigurationErrors(q.platform) = <<>>)
    /\ q.op = "getConfigurationErrors" =>
         /\ (q.value = <<>>) <=> isConfigured(q.platform)
         /\ q.platform = "x" =>
              q.value = validate("x")
                        \o (IF validate("x") = <<>> /\ ~client.built
                              THEN <<"Failed to initialize X.com client">>
                              ELSE <<>>)

\* A complete scheme whose client could not be constructed.
ConfiguredIffNoErrorsWitness ==
  /\ Len(observed) = 1
  /\ observed[1].op = "getConfigurationErrors"
  /\ observed[1].platform = "x"
  /\ ~client.built
  /\ observed[1].value = <<"Failed to initialize X.com client">>

(***************************************************************************)
(* C17 validateMessage(text) of the x adapter (checked under SpecQueries)  *)
(* returns isValid:true with an empty error list if and only if the text   *)
(* has at most 280 code units; a longer text gets isValid:false and a      *)
(* non-empty error list.                                                   *)
(***************************************************************************)
MicroblogCeiling ==
  \A k \in DOMAIN observed :
    (observed[k].op = "validateMessage" /\ observed[k].platform = "x") =>
      /\ observed[k].value.isValid <=> observed[k].arg <= 280
      /\ observed[k].value.isValid <=> observed[k].value.errors = <<>>

\* A text of exactly 280 units was accepted.
MicroblogCeilingWitness ==
  /\ Len(observed) = 1
  /\ observed[1].op = "validateMessage"
  /\ observed[1].platform = "x"
  /\ observed[1].arg = 280
  /\ observed[1].value = [isValid |-> TRUE, errors |-> <<>>]

(***************************************************************************)
(* C15 Capability error (checked under SpecAdapters): when the active      *)
(* scheme of the x adapter is the bearer token, send returns success:false *)
(* with 'Bearer token authentication cannot post tweets ...' and           *)
(* deleteMessage returns success:false with 'Bearer token authentication   *)
(* cannot delete tweets ...'; neither makes a round trip, neither throws.  *)
(***************************************************************************)
BearerCapabilityError ==
  (trace # <<>> /\ trace[1].platform = "x" /\ authMethod = "Bearer Token") =>
    /\ trace[1].op = "send" =>
         /\ trace = <<Call("send", "x"), Call("sendReturned", "x")>>
         /\ results = <<[success |-> FALSE, platform |-> "x",
                         error |-> "Bearer token authentication cannot post tweets - user authentication required"]>>
    /\ trace[1].op = "deleteMessage" =>
         /\ trace = <<Call("deleteMessage", "x"), Call("deleteReturned", "x")>>
         /\ results = <<[success |-> FALSE, platform |-> "x",
                         error |-> "Bearer token authentication cannot delete tweets - user authentication required"]>>

\* A bearer-token adapter was asked to delete a tweet.
BearerCapabilityErrorWitness ==
  /\ authMethod = "Bearer Token"
  /\ trace # <<>>
  /\ trace[1] = Call("deleteMessage", "x")
  /\ Len(results) = 1
  /\ ~results[1].success

(***************************************************************************)
(* C16 The capability error is a send-time error: an x adapter whose       *)
(* active scheme is the bearer token reports isConfigured() true and       *)
(* passes the gate, so a broadcast of a valid message to the configured    *)
(* telegram, vk and x calls send on all three; the x result is the         *)
(* capability failure, reached without a round trip, and the other two     *)
(* results are those of their own sends (a failure among them is that      *)
(* platform's own transport failure).                                      *)
(***************************************************************************)
BearerBroadcast ==
  /\ pc = "returned"
  /\ authMethod = "Bearer Token"
  /\ targetBroadcasters = <<"telegram", "vk", "x">>
  /\ isConfigured("telegram") /\ isConfigured("vk")
  /\ message <= 280

OwnTransportFailure(r) ==
  r.error \in {"fetch failed", "Forbidden", "Telegram API error: Forbidden",
               "VK API error: Forbidden", "unexpected fault"}

CapabilityErrorAtSendTime ==
  /\ authMethod = "Bearer Token" => isConfigured("x")
  /\ BearerBroadcast =>
       /\ [k \in DOMAIN SendCalls |-> SendCalls[k].platform] = <<"telegram", "vk", "x">>
       /\ Len(results) = 3
       /\ \A j \in DOMAIN trace : trace[j] # Call("net", "x")
       /\ Completions[3].op = "sendReturned" =>
            results[3] = [success |-> FALSE, platform |-> "x",
                          error |-> "Bearer token authentication cannot post tweets - user authentication required"]
       /\ \A i \in 1..2 :
            /\ results[i].platform = targetBroadcasters[i]
            /\ results[i].success \/ OwnTransportFailure(results[i])

\* The two other messages were posted; only the x result is a failure.
CapabilityErrorAtSendTimeWitness ==
  /\ BearerBroadcast
  /\ Len(results) = 3
  /\ results[1].success /\ results[2].success
  /\ ~results[3].success
  /\ Completions[3].op = "sendReturned"

(***************************************************************************)
(* C18 Content validation of telegram and vk is always-valid: a message of *)
(* any length sent only to configured telegram and vk adapters passes the  *)
(* gate and send is called on each selected adapter; and the dispatcher    *)
(* never calls validateMessage on an adapter that does not define it, nor  *)
(* records a content failure for it.                                       *)
(***************************************************************************)
OnlyWallAndMessaging ==
  /\ pc # "idle"
  /\ Len(targetBroadcasters) > 0
  /\ \A i \in Targets :
       targetBroadcasters[i] \in {"telegram", "vk"} /\ isConfigured(targetBroadcasters[i])

AlwaysValidAdapters ==
  /\ OnlyWallAndMessaging =>
       /\ Len(SendCalls) > 0
       /\ pc = "returned" =>
            [k \in DOMAIN SendCalls |-> SendCalls[k].platform] = targetBroadcasters
  /\ \A j \in DOMAIN trace :
       trace[j].op = "validateMessage" => trace[j].platform \in exposes
  /\ (pc = "returned" /\ NoSendAttempted) =>
       \A k \in DOMAIN results :
         results[k].platform \notin exposes => ~isConfigured(results[k].platform)

\* A text over the microblog ceiling went out to vk and telegram, neither of
\* which defines validateMessage.
AlwaysValidAdaptersWitness ==
  /\ pc = "returned"
  /\ message > 280
  /\ exposes = {"x"}
  /\ platforms = <<"vk", "telegram">>
  /\ OnlyWallAndMessaging
  /\ Len(results) = 2
  /\ results[1].success /\ results[2].success

(***************************************************************************)
(* C19 No hidden state (checked under SpecRepeat): in any sequence of      *)
(* isConfigured(), getConfigurationErrors(), validateMessage(text) and     *)
(* send calls on the same adapters, two calls of the same query with the   *)
(* same argument return the same value; in particular the error list does  *)
(* not grow from call to call.                                             *)
(***************************************************************************)
SameQuery(p, q) ==
  /\ p.op = q.op
  /\ p.op # "send"
  /\ p.platform = q.platform
  /\ p.arg = q.arg

SuccessCarriesMessageId ==
  (/\ trace # <<>> /\ trace[1].op = "send"
   /\ isConfigured(trace[1].platform)
   /\ Len(results) = 1 /\ results[1].success) =>
    /\ "messageId" \in DOMAIN results[1]
    /\ results[1].platform = "telegram" =>
         /\ "method" \in DOMAIN results[1]
         /\ results[1].method = (IF hasBotAuth(env) THEN "bot" ELSE "user")
    /\ results[1].platform = "x" =>
         /\ "method" \in DOMAIN results[1]
         /\ results[1].method = authMethod

(***************************************************************************)
(* Vocabulary of the properties of the user-client path.                   *)
(***************************************************************************)
PositionsIn(t, op) == {i \in DOMAIN t : t[i].op = op}
Positions(op) == PositionsIn(trace, op)
ClientObtained == Positions("client.connected") # {}
DeleteCalled == trace # <<>> /\ trace[1].op = "deleteMessage"
DeleteOperations ==
  Positions("channels.DeleteMessages") \cup Positions("messages.DeleteMessages")

\* The entity the delete acts on: the one passed, else the one resolved.
TargetEntity ==
  IF trace[1].chatEntity # NoEntity THEN trace[1].chatEntity
  ELSE IF Positions("client.getEntity") = {} THEN NoEntity
  ELSE trace[CHOOSE i \in Positions("client.getEntity") : TRUE].entity

ChannelScoped == {BroadcastChannel, Supergroup, MegagroupChat}
MessageScoped == {PlainChat, UserPeer}

\* C21: on the user-client scheme, a delete that has its target entity
\* invokes exactly one delete operation: channels.DeleteMessages for a
\* broadcast channel, a supergroup or a group flagged megagroup, and
\* messages.DeleteMessages with revoke: true for a plain group or a direct
\* conversation.
DeletePathSelection ==
  (DeleteCalled /\ ClientObtained /\ TargetEntity # NoEntity) =>
    /\ Cardinality(DeleteOperations) = 1
    /\ TargetEntity \in ChannelScoped =>
         \A i \in DeleteOperations : trace[i] = Call("channels.DeleteMessages", "telegram")
    /\ TargetEntity \in MessageScoped =>
         \A i \in DeleteOperations :
           /\ trace[i].op = "messages.DeleteMessages"
           /\ trace[i].revoke = TRUE

DeletePathSelectionWitness ==
  /\ DeleteCalled /\ ClientObtained
  /\ TargetEntity = MegagroupChat
  /\ Positions("channels.DeleteMessages") # {}

\* C27: one connection initialisation reads the session file at most once
\* and only if it exists, writes it at most once, only if it did not exist
\* when the initialisation began and only after client.start succeeded; a
\* file that exists is left as it is, and a failed handshake writes nothing.
SessionStoreStep ==
  LET reads == PositionsIn(trace', "fs.readFile")
      writes == PositionsIn(trace', "fs.writeFile")
      starts == PositionsIn(trace', "client.start")
  IN /\ Cardinality(reads) <= 1
     /\ reads # {} => sessionFile.exists
     /\ Cardinality(writes) <= 1
     /\ \A w \in writes :
          /\ ~sessionFile.exists
          /\ \E i \in starts : i < w /\ trace'[i].started
     /\ sessionFile.exists => sessionFile' = sessionFile
     /\ (\E i \in starts : ~trace'[i].started) =>
          writes = {} /\ sessionFile' = sessionFile
     /\ sessionFile' # sessionFile => writes # {}

SessionStore == [][SessionStoreStep]_vars

SessionStoreWitness ==
  /\ sessionFile = SavedSession
  /\ Positions("fs.writeFile") # {}
  /\ Positions("fs.readFile") = {}
  /\ \E i \in Positions("client.start") : trace[i].started

\* C28: a user-client send or delete that obtained a connected client
\* disconnects it exactly once, after the wrapped action and before the
\* result is returned, whether the action returned or threw; a fault of the
\* action comes back as a failure result carrying the fault's own message.
DisconnectsOnce ==
  ClientObtained =>
    /\ Cardinality(Positions("client.disconnect")) = 1
    /\ \A d \in Positions("client.disconnect") :
         /\ d = Len(trace) - 1
         /\ trace[Len(trace)].op \in {"sendReturned", "deleteReturned"}
         /\ \A i \in Positions("client.connected") \cup Positions("rejected") : i < d
    /\ \A i \in Positions("rejected") :
         /\ results[1].success = FALSE
         /\ results[1].error = trace[i].message
    /\ Positions("rejected") = {} => results[1].success = TRUE

DisconnectsOnceWitness ==
  /\ ClientObtained
  /\ Positions("rejected") # {}
  /\ Positions("client.disconnect") # {}
  /\ results[1].success = FALSE

(***************************************************************************)
(* Vocabulary of the properties of test() and testBroadcasters.            *)
(***************************************************************************)
On(op, b) == {i \in DOMAIN trace : trace[i].op = op /\ trace[i].platform = b}
Tested(b) == On("testReturned", b) # {}
ResultsOf(b) == {k \in DOMAIN results : results[k].platform = b}
CanaryPosted(b) == {i \in On("sendReturned", b) : trace[i].value.success}
CanaryFailed(b) ==
  {i \in On("sendReturned", b) : ~trace[i].value.success} \cup On("sendThrew", b)
CleanupFailed(b) ==
  {i \in On("deleteReturned", b) : ~trace[i].value.success} \cup On("deleteThrew", b)

\* C22: in the messaging adapter's test(), a canary that was sent is
\* followed by exactly one deleteMessage for the canary's messageId and the
\* test succeeds whether that deletion succeeds, fails or throws; a canary
\* that was not sent is followed by no deletion and the test fails with the
\* send's error in its message.
CanaryCleanup ==
  Tested("telegram") =>
    /\ CanaryPosted("telegram") # {} =>
         /\ Cardinality(On("deleteMessage", "telegram")) = 1
         /\ \A s \in CanaryPosted("telegram"), d \in On("deleteMessage", "telegram") :
              s < d /\ trace[d].messageId = trace[s].value.messageId
         /\ \A k \in ResultsOf("telegram") : results[k].success
    /\ CanaryFailed("telegram") # {} =>
         /\ On("deleteMessage", "telegram") = {}
         /\ \A k \in ResultsOf("telegram") : ~results[k].success
         /\ \A s \in On("sendReturned", "telegram"), k \in ResultsOf("telegram") :
              results[k].message = "Telegram: " \o trace[s].value.error

CanaryCleanupWitness ==
  /\ Tested("telegram")
  /\ CanaryPosted("telegram") # {}
  /\ CleanupFailed("telegram") # {}
  /\ \E k \in ResultsOf("telegram") : results[k].success

IsTestCall(c) == c.op = "test"
TestCalls == SelectSeq(trace, IsTestCall)
TestedAdapters == [k \in DOMAIN TestCalls |-> TestCalls[k].platform]
IsReady(b) == isConfigured(b)
OnePerAdapter ==
  /\ Len(results) = Len(broadcasters)
  /\ \A k \in DOMAIN results : results[k].platform = broadcasters[k]
ExitsNonZeroIffFailure ==
  /\ exitCode \in {"0", "1"}
  /\ exitCode = "1" <=> \E k \in DOMAIN results : results[k].success = FALSE

\* C24 as stated: the test-configuration run calls test() on every
\* registered adapter in registration order, a failure or fault of one not
\* stopping the later ones, and exits non-zero iff some outcome is a failure.
TestsEveryAdapter ==
  pc = "exited" =>
    /\ TestedAdapters = broadcasters
    /\ OnePerAdapter
    /\ ExitsNonZeroIffFailure

\* C24 amended: test() is called on every registered adapter that is
\* configured, in registration order; an adapter that is not configured is
\* recorded as a failure without test() being called; a failure or fault of
\* one adapter does not stop the later ones, every adapter has its outcome,
\* and the exit code is non-zero iff some outcome is a failure.
TestsConfiguredAdapters ==
  pc = "exited" =>
    /\ TestedAdapters = SelectSeq(broadcasters, IsReady)
    /\ OnePerAdapter
    /\ \A k \in DOMAIN results :
         ~IsReady(broadcasters[k]) => results[k].success = FALSE
    /\ ExitsNonZeroIffFailure

TestsConfiguredAdaptersWitness ==
  /\ pc = "exited"
  /\ exitCode = "1"
  /\ \E i, j \in DOMAIN trace :
       /\ i < j
       /\ trace[i].op = "testThrew"
       /\ trace[j].op = "test"
  /\ \E k \in DOMAIN results : results[k].success
  /\ \E k \in DOMAIN broadcasters : ~IsReady(broadcasters[k])

(***************************************************************************)
(* C29 Once the gate has passed there is no rollback: broadcast() never    *)
(* calls deleteMessage, every selected adapter's send is called whatever   *)
(* the earlier sends returned or threw, every completed send keeps its     *)
(* entry, and the returned list can mix successes and failures.            *)
(***************************************************************************)
NoRollback ==
  /\ \A j \in DOMAIN trace : trace[j].op \notin {"deleteMessage", "deleteReturned"}
  /\ ~NoSendAttempted =>
       /\ Len(results) = Len(Completions)
       /\ \A k \in DOMAIN results : results[k].platform = targetBroadcasters[k]
       /\ pc = "returned" =>
            /\ Len(SendCalls) = Len(targetBroadcasters)
            /\ Len(results) = Len(targetBroadcasters)

NoRollbackWitness ==
  /\ pc = "returned"
  /\ ~NoSendAttempted
  /\ Len(results) = 2
  /\ ~results[1].success
  /\ results[2].success

(***************************************************************************)
(* C30 For the x adapter constructed from any credential setting (checked  *)
(* under SpecQueries): when the TwitterApi constructor did not throw, the  *)
(* client handle is non-null if and only if validation passes, and then    *)
(* authMethod is one of the three scheme names; the entry 'Failed to       *)
(* initialize X.com client' is reported only when the constructor threw.   *)
(***************************************************************************)
ClientIffValid ==
  /\ ~ctorThrew =>
       /\ client.built <=> XCompleteSchemes > 0
       /\ client.built =>
            authMethod \in {"OAuth 2.0 User", "OAuth 1.0a User", "Bearer Token"}
  /\ \A k \in DOMAIN observed :
       (observed[k].platform = "x" /\ observed[k].op \in {"validate", "getConfigurationErrors"}) =>
         /\ (observed[k].op = "validate" /\ ~ctorThrew) =>
              (client.built <=> observed[k].value = <<>>)
         /\ (observed[k].op = "getConfigurationErrors"
             /\ \E i \in DOMAIN observed[k].value :
                  observed[k].value[i] = "Failed to initialize X.com client") =>
              ctorThrew

\* Only a bearer token is set and the constructor returned.
ClientIffValidWitness ==
  /\ ~ctorThrew
  /\ client.built
  /\ authMethod = "Bearer Token"
  /\ Len(observed) = 1
  /\ observed[1].platform = "x"
  /\ observed[1].op = "validate"
  /\ Len(observed[1].value) = 0

(***************************************************************************)
(* Vocabulary of the properties of the front end.                          *)
(***************************************************************************)
BeyondFrontEndIn(t) == {j \in DOMAIN t : t[j].platform # "cli"}
BroadcastCalled == BeyondFrontEndIn(trace) # {}
Unrecognised ==
  \E i \in DOMAIN platforms : platforms[i] \notin {"telegram", "vk", "x", "all"}
BroadcastThrew ==
  \E j \in DOMAIN trace : trace[j] = CliLog("console.error: Broadcast failed")

\* C25: a run of the front end that called broadcast() exits non-zero iff
\* the returned list has a success:false entry or broadcast() threw; a
\* request with an unrecognised platform name exits non-zero before
\* broadcast() is called, no adapter method having run.
ExitStatus ==
  /\ (pc = "exited" /\ BroadcastCalled) =>
       /\ exitCode \in {"0", "1"}
       /\ exitCode = "1" <=>
            (BroadcastThrew \/ \E k \in DOMAIN results : results[k].success = FALSE)
  /\ (pc # "idle" /\ Unrecognised) =>
       /\ pc = "exited"
       /\ exitCode = "1"
       /\ ~BroadcastCalled
       /\ results = <<>>

ExitStatusWitness ==
  /\ pc = "exited"
  /\ BroadcastCalled
  /\ exitCode = "1"
  /\ \E k \in DOMAIN results : results[k].success
  /\ \E k \in DOMAIN results : ~results[k].success

\* C26: a step of the front end taken with the test flag set ends the run
\* without broadcast() being called: nothing beyond the front end's own
\* output is recorded (no isConfigured, validateMessage, send or round
\* trip), whatever the message and the platform list.
DryRunStep ==
  \A m \in {0} \cup Messages, raw \in RawLists :
    Main(m, raw, TRUE) =>
      /\ pc' = "exited"
      /\ BeyondFrontEndIn(trace') = {}
      /\ results' = <<>>
      /\ targetBroadcasters' = <<>>

DryRun == [][DryRunStep]_vars

DryRunWitness ==
  /\ pc = "exited"
  /\ exitCode = "0"
  /\ trace = <<CliLog("console.log: Test completed (no actual send)")>>
  /\ message > XLimit
  /\ Len(platforms) >= 2

====
